---- MODULE Spec2Model ----
(***************************************************************************)
(* HeroService (src/app/infrastructure/services/hero.service.ts): an       *)
(* in-memory store of Hero records held in an Angular signal, whose        *)
(* operations return cold RxJS observables, of(value).pipe(delay(500)) or  *)
(* throwError(...).                                                        *)
(*                                                                         *)
(* Strings are sequences of one-character strings, so that toLowerCase,    *)
(* trim, includes, slice and template literals are computed as the code    *)
(* computes them.  Arrays live in a heap of immutable-by-convention        *)
(* sequences: the signal holds a reference, of(this.heroesSignal())        *)
(* captures that reference, and every set/update of the signal installs a  *)
(* newly allocated array.  Time is milliseconds since 2024-01-01T00:00Z.   *)
(***************************************************************************)
EXTENDS Integers, Sequences, FiniteSets, TLC

VARIABLES
    heap,   \* every Hero[] allocated so far; heap[r] is the array behind reference r
    heroesSignal,  \* the reference to the array the signal currently holds
    now,    \* Date.now() and the timer clock
    calls,  \* the invocations made so far, in call order, with what each returned
    subs    \* the subscriptions made so far, with the notifications each received

vars == <<heap, heroesSignal, now, calls, subs>>

------------------------------------------------------------------------------
(* Bounds *)

MaxStoreCalls == 3   \* invocations in a run of the store alone
MaxCalls == 2        \* invocations in a run with subscriptions
MaxSubs == 2         \* subscriptions in a run
MaxSkew == 1         \* milliseconds the clock may move besides the delay

------------------------------------------------------------------------------
(* Strings *)

UNDEFINED == <<"undefined">>   \* the JavaScript value undefined (no string has a 9-character element)
ABSENT == <<"absent">>         \* a DTO key that is not present at all

Upper == <<"A","B","C","D","E","F","G","H","I","J","K","L","M",
           "N","O","P","Q","R","S","T","U","V","W","X","Y","Z">>
Lower == <<"a","b","c","d","e","f","g","h","i","j","k","l","m",
           "n","o","p","q","r","s","t","u","v","w","x","y","z">>
Whitespace == {" ", "\t", "\n"}

LowerChar(c) ==
    IF \E i \in 1..26 : Upper[i] = c
    THEN Lower[CHOOSE i \in 1..26 : Upper[i] = c]
    ELSE c

ToLowerCase(s) == [i \in 1..Len(s) |-> LowerChar(s[i])]

Trim(s) ==
    LET keep == {i \in 1..Len(s) : s[i] \notin Whitespace}
    IN  IF keep = {} THEN <<>>
        ELSE SubSeq(s, CHOOSE i \in keep : \A j \in keep : i <= j,
                       CHOOSE i \in keep : \A j \in keep : i >= j)

Includes(s, t) ==
    \E i \in 0..(Len(s) - Len(t)) : SubSeq(s, i + 1, i + Len(t)) = t

\* String.prototype.slice(from, to) for 0 <= from <= to
Slice(s, from, to) == SubSeq(s, from + 1, IF to < Len(s) THEN to ELSE Len(s))

Digit == <<"0","1","2","3","4","5","6","7","8","9">>

RECURSIVE ToDecimal(_)
ToDecimal(n) ==
    IF n < 10 THEN <<Digit[n + 1]>>
    ELSE Append(ToDecimal(n \div 10), Digit[(n % 10) + 1])

------------------------------------------------------------------------------
(* Data: hero.model.ts and the literals of hero.service.ts *)

DayMs == 24 * 60 * 60 * 1000

\* new Date('2024-01-01'), new Date('2024-01-02'), new Date('2024-01-03')
SeedDate(day) == (day - 1) * DayMs

\* The service is constructed after the seed timestamps, at 2024-01-04T00:00Z.
StartTime == 3 * DayMs

ASYNC_DELAY == 500

MaxTime == StartTime + ASYNC_DELAY + MaxSkew

Hero(id, name, description, createdAt) ==
    [id |-> id, name |-> name, description |-> description, createdAt |-> createdAt]

SeedHeroes ==
    << Hero(<<"1">>, <<"S","u","p","e","r","m","a","n">>,
            <<"M","a","n"," ","o","f"," ","S","t","e","e","l">>, SeedDate(1)),
       Hero(<<"2">>, <<"S","p","i","d","e","r","m","a","n">>,
            <<"Y","o","u","r"," ","f","r","i","e","n","d","l","y"," ",
              "n","e","i","g","h","b","o","r","h","o","o","d"," ",
              "S","p","i","d","e","r","-","M","a","n">>, SeedDate(2)),
       Hero(<<"3">>, <<"B","a","t","m","a","n">>,
            <<"T","h","e"," ","D","a","r","k"," ","K","n","i","g","h","t">>, SeedDate(3)) >>

\* (mutation of ResetHeroes: the first two records change places)
ResetHeroesReordered == <<SeedHeroes[2], SeedHeroes[1], SeedHeroes[3]>>

\* The literal resetToInitialState sets the signal to
ResetHeroes ==
    << Hero(<<"1">>, <<"S","u","p","e","r","m","a","n">>,
            <<"M","a","n"," ","o","f"," ","S","t","e","e","l">>, SeedDate(1)),
       Hero(<<"2">>, <<"S","p","i","d","e","r","m","a","n">>,
            <<"Y","o","u","r"," ","f","r","i","e","n","d","l","y"," ",
              "n","e","i","g","h","b","o","r","h","o","o","d"," ",
              "S","p","i","d","e","r","-","M","a","n">>, SeedDate(2)),
       Hero(<<"3">>, <<"B","a","t","m","a","n">>,
            <<"T","h","e"," ","D","a","r","k"," ","K","n","i","g","h","t">>, SeedDate(3)) >>

\* CreateHeroDto values the callers pass: name is required, description optional.
CreateDtos ==
    { [name |-> <<"F","l","a","s","h">>, description |-> ABSENT],
      [name |-> <<"A","q","u","a","m","a","n">>,
       description |-> <<"A","m","a","z","o","n"," ","P","r","i","n","c","e","s","s">>] }

\* UpdateHeroDto values: each key may be missing, present with a string, or
\* present with the value undefined (name?: string admits all three).
ClarkKent == <<"C","l","a","r","k"," ","K","e","n","t">>
UpdatedDescription ==
    <<"U","p","d","a","t","e","d"," ","d","e","s","c","r","i","p","t","i","o","n">>

UpdateDtos ==
    { [name |-> ClarkKent, description |-> ABSENT],
      [name |-> ABSENT, description |-> UpdatedDescription],
      [name |-> ClarkKent, description |-> UNDEFINED],
      [name |-> UNDEFINED, description |-> ABSENT] }

NoDto == [name |-> ABSENT, description |-> ABSENT]

MissingId == <<"n","o","p","e">>

Ids(hs) == {hs[i].id : i \in 1..Len(hs)}

SeedIds == {<<"1">>, <<"2">>, <<"3">>}

\* The ids a caller passes: a seed id, every generated id in the collection,
\* and an id no record ever has.
IdInputs(hs) == {<<"2">>, MissingId} \cup (Ids(hs) \ SeedIds)

Terms ==
    { <<>>, <<" "," ">>, <<" "," ","M","A","N"," "," ">>, <<"m","a","n">>,
      <<"S","U","P","E","R">> }

\* Values of Math.random().toString(36): "0" when Math.random() is 0, otherwise
\* "0." followed by base-36 digits.
RandomStrings ==
    { <<"0">>, <<"0",".","4","f","z","y","o","8","2","m","v","y","r">> }

------------------------------------------------------------------------------
(* Values carried by observables *)

NoHero == Hero(<<>>, <<>>, UNDEFINED, 0)

RefVal(r) == [t |-> "ref", ref |-> r, arr |-> <<>>, hero |-> NoHero]
ArrVal(a) == [t |-> "arr", ref |-> 0, arr |-> a, hero |-> NoHero]
HeroVal(h) == [t |-> "hero", ref |-> 0, arr |-> <<>>, hero |-> h]
UndefinedVal == [t |-> "undefined", ref |-> 0, arr |-> <<>>, hero |-> NoHero]

\* What a returned value shows when it is looked at with the heap hp.
Deref(v, hp) == IF v.t = "ref" THEN ArrVal(hp[v.ref]) ELSE v

Ok(v) == [kind |-> "value", val |-> v, msg |-> <<>>]
Err(m) == [kind |-> "error", val |-> UndefinedVal, msg |-> m]
Thrown(m) == [kind |-> "thrown", val |-> UndefinedVal, msg |-> m]

Call(op, id, term, dto, pre, post, out) ==
    [op |-> op, id |-> id, term |-> term, dto |-> dto,
     pre |-> pre, post |-> post, out |-> out]

------------------------------------------------------------------------------
(* The pure parts of the operations *)

\* (mutation of FindIndex: a missing id is taken for the first record)
FindIndexOrFirst(hs, id) ==
    IF \E i \in 1..Len(hs) : hs[i].id = id
    THEN (CHOOSE i \in 1..Len(hs) :
              hs[i].id = id /\ \A j \in 1..(i - 1) : hs[j].id # id) - 1
    ELSE 0

\* Array.prototype.findIndex(h => h.id === id): 0-based, -1 when there is none
FindIndex(hs, id) ==
    IF \E i \in 1..Len(hs) : hs[i].id = id
    THEN (CHOOSE i \in 1..Len(hs) :
              hs[i].id = id /\ \A j \in 1..(i - 1) : hs[j].id # id) - 1
    ELSE -1

\* Array.prototype.find(h => h.id === id)
Find(hs, id) ==
    IF FindIndex(hs, id) = -1 THEN UndefinedVal ELSE HeroVal(hs[FindIndex(hs, id) + 1])

\* Array.prototype.some(h => h.id === id)
Some(hs, id) == \E i \in 1..Len(hs) : hs[i].id = id

\* Array.prototype.slice(from, to), 0-based, to exclusive
ArraySlice(hs, from, to) == SubSeq(hs, from + 1, to)

generateId(t, r) == ToDecimal(t) \o <<"-">> \o Slice(r, 2, 11)

\* { id: this.generateId(), name: dto.name, description: dto.description, createdAt: new Date() }
NewHero(dto, t, r) ==
    Hero(generateId(t, r), dto.name,
         IF dto.description = ABSENT THEN UNDEFINED ELSE dto.description, t)

\* (mutation of CreateHeroes: the new record is not written to the signal)
CreateHeroesDropped(hs, h) == hs

\* (mutation of CreateHeroes: the new hero is put in front)
CreateHeroesPrepended(hs, h) == <<h>> \o hs

\* heroes => [...heroes, newHero]
CreateHeroes(hs, h) == Append(hs, h)

\* { ...currentHeroes[index], ...dto }: every key present in dto overwrites
UpdatedHero(old, dto) ==
    Hero(old.id,
         IF dto.name = ABSENT THEN old.name ELSE dto.name,
         IF dto.description = ABSENT THEN old.description ELSE dto.description,
         old.createdAt)

\* (mutation of UpdatedHeroes: the old record is removed and the new one pushed)
UpdatedHeroesMoved(hs, index, h) ==
    ArraySlice(hs, 0, index) \o ArraySlice(hs, index + 1, Len(hs)) \o <<h>>

\* [...currentHeroes.slice(0, index), updatedHero, ...currentHeroes.slice(index + 1)]
UpdatedHeroes(hs, index, h) ==
    ArraySlice(hs, 0, index) \o <<h>> \o ArraySlice(hs, index + 1, Len(hs))

\* heroes => heroes.filter(h => h.id !== id)
DeleteHeroes(hs, id) == SelectSeq(hs, LAMBDA h : h.id # id)

\* `Hero with id ${id} not found`
NotFoundMessage(id) ==
    <<"H","e","r","o"," ","w","i","t","h"," ","i","d"," ">> \o id
        \o <<" ","n","o","t"," ","f","o","u","n","d">>

TypeErrorMessage == <<"T","y","p","e","E","r","r","o","r">>

\* (mutation of NormalizedTerm: the term is lower-cased and not trimmed)
NormalizedTermUntrimmed(term) == ToLowerCase(term)

\* term.toLowerCase().trim()
NormalizedTerm(term) == Trim(ToLowerCase(term))

\* hero.name.toLowerCase() throws a TypeError when name is undefined
NameThrows(hs) == \E i \in 1..Len(hs) : hs[i].name = UNDEFINED

\* heroes.filter(hero => hero.name.toLowerCase().includes(normalizedTerm))
Filtered(hs, normalizedTerm) ==
    SelectSeq(hs, LAMBDA h : Includes(ToLowerCase(h.name), normalizedTerm))

\* What getAll returns: of(this.heroesSignal()) holds the signal's own array
GetAllOut(ref) == Ok(RefVal(ref))

GetByIdOut(hs, id) == Ok(Find(hs, id))

SearchByNameOut(hs, ref, term) ==
    IF NormalizedTerm(term) = <<>> THEN GetAllOut(ref)
    ELSE IF NameThrows(hs) THEN Thrown(TypeErrorMessage)
    ELSE Ok(ArrVal(Filtered(hs, NormalizedTerm(term))))

\* The result of query c on the collection hs
ReadResult(c, hs) ==
    CASE c.op = "getAll" -> ArrVal(hs)
      [] c.op = "getById" -> Find(hs, c.id)
      [] c.op = "searchByName" ->
             IF NormalizedTerm(c.term) = <<>> THEN ArrVal(hs)
             ELSE ArrVal(Filtered(hs, NormalizedTerm(c.term)))

\* (mutation of DeliveredValue: a query is evaluated when its timer fires, as
\* defer(() => of(...)) or a map after the delay would do)
DeliveredValueLate(c, hp) ==
    IF c.op \in {"getAll", "getById", "searchByName"}
    THEN ReadResult(c, hp[Len(hp)])
    ELSE Deref(c.out.val, hp)

\* What a subscriber is handed when the delay of call c has elapsed: the value
\* that of(...) was given when the call was made
DeliveredValue(c, hp) == Deref(c.out.val, hp)

------------------------------------------------------------------------------
(* State *)

heroes == heap[heroesSignal]          \* this.heroesSignal()

Init ==
    /\ heap = <<SeedHeroes>>
    /\ heroesSignal = 1
    /\ now = StartTime
    /\ calls = <<>>
    /\ subs = <<>>

\* (mutation of Commit: the array the signal holds is overwritten in place, as
\* push/splice on the array read from the signal would do)
CommitInPlace(n, op, id, dto, arr, out) ==
    /\ Len(calls) < n
    /\ heap' = [heap EXCEPT ![heroesSignal] = arr]
    /\ calls' = Append(calls, Call(op, id, <<>>, dto, heroesSignal, heroesSignal, out))
    /\ UNCHANGED <<heroesSignal, now, subs>>

\* A mutation that went through: the signal is set to a newly built array.
Commit(n, op, id, dto, arr, out) ==
    /\ Len(calls) < n
    /\ heap' = Append(heap, arr)
    /\ heroesSignal' = Len(heap) + 1
    /\ calls' = Append(calls, Call(op, id, <<>>, dto, heroesSignal, Len(heap) + 1, out))
    /\ UNCHANGED <<now, subs>>

\* (mutation of Query: the query reverses the signal's array in place, as
\* heroes.reverse() on the array read from the signal would do)
QueryReversing(n, op, id, term, out) ==
    /\ Len(calls) < n
    /\ heap' = [heap EXCEPT ![heroesSignal] =
                    [k \in 1..Len(heroes) |-> heroes[Len(heroes) + 1 - k]]]
    /\ calls' = Append(calls, Call(op, id, term, NoDto, heroesSignal, heroesSignal, out))
    /\ UNCHANGED <<heroesSignal, now, subs>>

\* A query: the signal is read, nothing is written.  (n bounds the number of
\* invocations in a run.)
Query(n, op, id, term, out) ==
    /\ Len(calls) < n
    /\ calls' = Append(calls, Call(op, id, term, NoDto, heroesSignal, heroesSignal, out))
    /\ UNCHANGED <<heap, heroesSignal, now, subs>>

\* update or delete of an id that is not there: throwError, the signal untouched.
Reject(n, op, id, dto) ==
    /\ Len(calls) < n
    /\ calls' = Append(calls, Call(op, id, <<>>, dto, heroesSignal, heroesSignal, Err(NotFoundMessage(id))))
    /\ UNCHANGED <<heap, heroesSignal, now, subs>>

getAll(n) == Query(n, "getAll", <<>>, <<>>, GetAllOut(heroesSignal))

getById(n, id) == Query(n, "getById", id, <<>>, GetByIdOut(heroes, id))

searchByName(n, term) ==
    Query(n, "searchByName", <<>>, term, SearchByNameOut(heroes, heroesSignal, term))

create(n, dto, r) ==
    LET newHero == NewHero(dto, now, r)
    IN  Commit(n, "create", <<>>, dto, CreateHeroes(heroes, newHero), Ok(HeroVal(newHero)))

update(n, id, dto) ==
    LET currentHeroes == heroes
        index == FindIndex(currentHeroes, id)
    IN  IF index = -1
        THEN Reject(n, "update", id, dto)
        ELSE LET updatedHero == UpdatedHero(currentHeroes[index + 1], dto)
             IN  Commit(n, "update", id, dto,
                        UpdatedHeroes(currentHeroes, index, updatedHero),
                        Ok(HeroVal(updatedHero)))

delete(n, id) ==
    IF ~Some(heroes, id)
    THEN Reject(n, "delete", id, NoDto)
    ELSE Commit(n, "delete", id, NoDto, DeleteHeroes(heroes, id), Ok(UndefinedVal))

resetToInitialState(n) ==
    Commit(n, "resetToInitialState", <<>>, NoDto, ResetHeroes, Ok(UndefinedVal))

------------------------------------------------------------------------------
(* Observables: subscription, the delay timer, delivery *)

\* A notification a subscriber received, and the array the signal held then
\* (what service.heroes() shows inside the subscriber's callback).
Notification(type, val, msg, seen) == [type |-> type, val |-> val, msg |-> msg, seen |-> seen]

\* resetToInitialState returns nothing; a call that threw returned nothing.
Returned(c) == c.op # "resetToInitialState" /\ c.out.kind # "thrown"

\* throwError(() => new Error(...)): subscribe() itself notifies the error
OnSubscribeError(c, ref) == <<Notification("error", UndefinedVal, c.out.msg, ref)>>

\* (mutation of OnTimer: the delayed value is lost)
OnTimerSilent(c, hp, ref) == <<>>

\* of(v).pipe(delay(ASYNC_DELAY)): when the timer fires, next(v), then complete
OnTimer(c, hp, ref) ==
    << Notification("next", DeliveredValue(c, hp), <<>>, ref),
       Notification("complete", UndefinedVal, <<>>, ref) >>

\* delay(this.ASYNC_DELAY): the timer started at time t fires no earlier than
DueTime(t) == t + ASYNC_DELAY

\* (mutation of Subscribe: create is applied when its observable is subscribed
\* to, as a new Observable(...) or defer(...) around the signal update would do)
SubscribeApplying(i) ==
    /\ Len(subs) < MaxSubs
    /\ i \in 1..Len(calls)
    /\ Returned(calls[i])
    /\ IF calls[i].out.kind = "error"
       THEN subs' = Append(subs, [call |-> i, at |-> now, due |-> now,
                                  notifs |-> OnSubscribeError(calls[i], heroesSignal)])
       ELSE /\ now + ASYNC_DELAY <= MaxTime
            /\ subs' = Append(subs, [call |-> i, at |-> now, due |-> DueTime(now),
                                     notifs |-> <<>>])
    /\ IF calls[i].op = "create"
       THEN /\ heap' = Append(heap, Append(heroes, calls[i].out.val.hero))
            /\ heroesSignal' = Len(heap) + 1
       ELSE UNCHANGED <<heap, heroesSignal>>
    /\ UNCHANGED <<now, calls>>

\* subscribe() on what call i returned.
Subscribe(i) ==
    /\ Len(subs) < MaxSubs
    /\ i \in 1..Len(calls)
    /\ Returned(calls[i])
    /\ IF calls[i].out.kind = "error"
       THEN subs' = Append(subs, [call |-> i, at |-> now, due |-> now,
                                  notifs |-> OnSubscribeError(calls[i], heroesSignal)])
       ELSE /\ now + ASYNC_DELAY <= MaxTime
            /\ subs' = Append(subs, [call |-> i, at |-> now, due |-> DueTime(now),
                                     notifs |-> <<>>])
    /\ UNCHANGED <<heap, heroesSignal, now, calls>>

\* (mutation of TimerDue: the value is emitted without waiting for the delay)
TimerDueAtOnce(s, t) == TRUE

\* The timer of subscription s has run out at time t
TimerDue(s, t) == t >= s.due

\* The timer of subscription j fires.  Timers of equal delay fire in the order
\* they were started.
Deliver(j) ==
    /\ j \in 1..Len(subs)
    /\ subs[j].notifs = <<>>
    /\ TimerDue(subs[j], now)
    /\ \A k \in 1..(j - 1) : subs[k].notifs # <<>>
    /\ subs' = [subs EXCEPT ![j].notifs = OnTimer(calls[subs[j].call], heap, heroesSignal)]
    /\ UNCHANGED <<heap, heroesSignal, now, calls>>

\* Time passes: by a millisecond (at most MaxSkew of them in a row), or by the
\* whole delay.
Tick(d) ==
    /\ now + d <= MaxTime
    /\ d = 1 => (now - StartTime) % ASYNC_DELAY < MaxSkew
    /\ now' = now + d
    /\ UNCHANGED <<heap, heroesSignal, calls, subs>>

------------------------------------------------------------------------------
(* Specifications *)

\* The store and its observables: callers invoke, subscribe when they like,
\* and the timers fire.
Flash == [name |-> <<"F","l","a","s","h">>, description |-> ABSENT]
Rename == [name |-> ClarkKent, description |-> ABSENT]

Next ==
    \/ getAll(MaxCalls)
    \/ getById(MaxCalls, <<"2">>)
    \/ searchByName(MaxCalls, <<"m","a","n">>)
    \/ create(MaxCalls, Flash, <<"0">>)
    \/ \E id \in {<<"2">>, MissingId} : update(MaxCalls, id, Rename)
    \/ delete(MaxCalls, <<"2">>)
    \/ resetToInitialState(MaxCalls)
    \/ \E i \in 1..MaxCalls : Subscribe(i)
    \/ \E j \in 1..MaxSubs : Deliver(j)
    \/ \E d \in {1, ASYNC_DELAY} : Tick(d)

Spec == Init /\ [][Next]_vars

\* The six entry points that return an observable, with the timer queue of the
\* runtime: time keeps passing and a due timer fires.
AsyncNext ==
    \/ getAll(MaxCalls)
    \/ getById(MaxCalls, <<"2">>)
    \/ searchByName(MaxCalls, <<"m","a","n">>)
    \/ create(MaxCalls, Flash, <<"0">>)
    \/ update(MaxCalls, <<"2">>, Rename)
    \/ delete(MaxCalls, <<"2">>)
    \/ \E i \in 1..MaxCalls : Subscribe(i)
    \/ \E j \in 1..MaxSubs : Deliver(j)
    \/ \E d \in {1, ASYNC_DELAY} : Tick(d)

FairSpec ==
    /\ Init /\ [][AsyncNext]_vars
    /\ WF_vars(\E d \in {1, ASYNC_DELAY} : Tick(d))
    /\ WF_vars(\E j \in 1..MaxSubs : Deliver(j))

\* The store alone, over every input: what the calls do to the collection and
\* what they return does not depend on subscriptions.
\* (update of an id that is not there fails before it looks at the patch: one
\* patch is tried for it.)
StoreNext ==
    \/ getAll(MaxStoreCalls)
    \/ \E id \in IdInputs(heroes) : getById(MaxStoreCalls, id)
    \/ \E term \in Terms : searchByName(MaxStoreCalls, term)
    \/ \E dto \in CreateDtos, r \in RandomStrings : create(MaxStoreCalls, dto, r)
    \/ \E id \in IdInputs(heroes), dto \in UpdateDtos :
           /\ id = MissingId => dto = Rename
           /\ update(MaxStoreCalls, id, dto)
    \/ \E id \in IdInputs(heroes) : delete(MaxStoreCalls, id)
    \/ resetToInitialState(MaxStoreCalls)
    \/ Tick(1)

StoreSpec == Init /\ [][StoreNext]_vars

------------------------------------------------------------------------------
(* Reading the history *)

Before(c) == heap[c.pre]     \* the collection when call c was made
After(c) == heap[c.post]     \* the collection when call c returned

CallsOf(ops) == {i \in 1..Len(calls) : calls[i].op \in ops}

Present(c) == \E k \in 1..Len(Before(c)) : Before(c)[k].id = c.id

NotFoundText == <<"n","o","t"," ","f","o","u","n","d">>

------------------------------------------------------------------------------
(* C1 -- no two records of the collection have the same id, in any reachable
   state.  generateId has no collision check: two create calls in the same
   millisecond whose Math.random() values agree are given the same id. *)
C1_UniqueIds ==
    \A i, j \in 1..Len(heroes) : i # j => heroes[i].id # heroes[j].id

(* C2 -- every id assigned by create is non-empty and differs from every id
   that was in the collection at any time before the call (seed ids, ids of
   earlier creates, ids of heroes deleted since). *)
C2_FreshIds ==
    \A i \in CallsOf({"create"}) :
        LET id == calls[i].out.val.hero.id
        IN  /\ id # <<>>
            /\ \A r \in 1..calls[i].pre : id \notin Ids(heap[r])

C3_Rejected(i) ==
    calls[i].op \in {"update", "delete"} /\ ~Present(calls[i])

(* C3 -- update(id, patch) and delete(id) with an id that no record has leave
   the collection exactly as it was (the same records in the same order), and
   the failure they deliver carries a message that contains "not found" and
   the id. *)
C3_MissingIdLeavesCollection ==
    /\ \A i \in 1..Len(calls) :
           C3_Rejected(i) =>
               /\ After(calls[i]) = Before(calls[i])
               /\ calls[i].out.kind = "error"
               /\ Includes(calls[i].out.msg, NotFoundText)
               /\ Includes(calls[i].out.msg, calls[i].id)
    /\ \A j \in 1..Len(subs) :
           C3_Rejected(subs[j].call) =>
               /\ Len(subs[j].notifs) = 1
               /\ subs[j].notifs[1].type = "error"
               /\ Includes(subs[j].notifs[1].msg, NotFoundText)
               /\ Includes(subs[j].notifs[1].msg, calls[subs[j].call].id)

\* the update of an id that was deleted before was rejected, and the failure
\* was delivered to a subscriber
C3_Witness ==
    /\ Len(calls) = 2 /\ Len(subs) >= 1
    /\ calls[1].op = "delete" /\ calls[1].out.kind = "value"
    /\ calls[2].op = "update" /\ calls[2].id = calls[1].id
    /\ subs[1].call = 2 /\ subs[1].notifs # <<>>

(* C4 -- update and delete deliver a failure if and only if no record with the
   id is in the collection when they are invoked; getAll, getById,
   searchByName and create never deliver a failure, in any state, for any
   input. *)
C4_FailureOnlyNotFound ==
    \A i \in 1..Len(calls) :
        /\ calls[i].op \in {"update", "delete"} =>
               (calls[i].out.kind # "value" <=> ~Present(calls[i]))
        /\ calls[i].op \in {"getAll", "getById", "searchByName", "create"} =>
               calls[i].out.kind = "value"

Queries == {"getAll", "getById", "searchByName"}

(* C5 -- the value delivered by getAll, getById or searchByName is the result
   computed on the collection as it was when the operation was invoked, also
   when the collection has changed before the value is delivered. *)
C5_ReadsReflectInvocation ==
    \A j \in 1..Len(subs) :
        LET c == calls[subs[j].call]
        IN  (c.op \in Queries /\ subs[j].notifs # <<>>) =>
                /\ subs[j].notifs[1].type = "next"
                /\ subs[j].notifs[1].val = ReadResult(c, Before(c))

\* a query result was delivered after a later call had changed the collection,
\* and the query would have given something else at delivery
C5_Witness ==
    \E j \in 1..Len(subs) :
        LET c == calls[subs[j].call]
        IN  /\ c.op \in Queries
            /\ subs[j].notifs # <<>>
            /\ subs[j].notifs[1].seen # c.pre
            /\ ReadResult(c, heap[subs[j].notifs[1].seen]) # subs[j].notifs[1].val

C6_Committed(c) ==
    /\ c.post # c.pre
    /\ c.op = "create" =>
           /\ Len(After(c)) = Len(Before(c)) + 1
           /\ After(c)[Len(After(c))] = c.out.val.hero
    /\ c.op = "update" =>
           \E k \in 1..Len(After(c)) : After(c)[k] = c.out.val.hero
    /\ c.op = "delete" => c.id \notin Ids(After(c))

(* C6 -- a successful create, update or delete commits its change when it is
   invoked, before its result is delivered: the snapshot read right after the
   call and every operation invoked after it observe the change, whatever the
   order in which results are delivered. *)
C6_CommitAtCallTime ==
    /\ \A i \in CallsOf({"create", "update", "delete"}) :
           calls[i].out.kind = "value" =>
               /\ C6_Committed(calls[i])
               /\ calls[i].post = (IF i < Len(calls) THEN calls[i + 1].pre ELSE heroesSignal)
    /\ \A j \in 1..Len(subs) :
           subs[j].notifs # <<>> => subs[j].notifs[1].seen >= calls[subs[j].call].post

\* "2" was deleted and a later getById("2") found nothing; the result of the
\* getById has been delivered and nothing has been delivered for the delete
C6_Witness ==
    /\ Len(calls) = 2
    /\ calls[1].op = "delete" /\ calls[1].out.kind = "value"
    /\ calls[2].op = "getById" /\ calls[2].id = calls[1].id
    /\ calls[2].out.val = UndefinedVal
    /\ \E j \in 1..Len(subs) : subs[j].call = 2 /\ subs[j].notifs # <<>>
    /\ \A j \in 1..Len(subs) : subs[j].call = 1 => subs[j].notifs = <<>>

Outcomes(ns) == Cardinality({k \in 1..Len(ns) : ns[k].type \in {"next", "error"}})

OutcomesOfCall(i) ==
    Cardinality({j \in 1..Len(subs) : subs[j].call = i /\ Outcomes(subs[j].notifs) > 0})

(* C7 -- every invocation of getAll, getById, searchByName, create, update or
   delete eventually delivers exactly one outcome to its caller, one success
   value or one failure, never both and never none (as stated: counted per
   invocation). *)
C7_OneOutcomePerInvocation ==
    \A i \in 1..Len(calls) : OutcomesOfCall(i) <= 1

C7_Shape(s) ==
    \/ s.notifs = <<>>
    \/ /\ Len(s.notifs) = 1
       /\ s.notifs[1].type = "error"
       /\ calls[s.call].out.kind = "error"
    \/ /\ Len(s.notifs) = 2
       /\ s.notifs[1].type = "next" /\ s.notifs[2].type = "complete"
       /\ calls[s.call].out.kind = "value"

(* C7 as amended -- every subscription to the observable an invocation returned
   receives exactly one outcome, the success value (followed by completion) or
   the failure, never both, and receives it eventually; once received it is
   never changed or followed by another. *)
C7_EachSubscriptionOneOutcome ==
    /\ [](\A j \in 1..Len(subs) : C7_Shape(subs[j]))
    /\ []<>(\A j \in 1..Len(subs) : Outcomes(subs[j].notifs) = 1)
    /\ [][\A j \in 1..Len(subs) : subs[j].notifs # <<>> => subs'[j] = subs[j]]_vars

\* one invocation, subscribed twice: each subscription has received its value
C7_Witness ==
    /\ Len(subs) = 2
    /\ subs[1].call = subs[2].call
    /\ calls[subs[1].call].out.kind = "value"
    /\ Outcomes(subs[1].notifs) = 1
    /\ Outcomes(subs[2].notifs) = 1

FirstWithId(hs, id) ==
    CHOOSE k \in 1..Len(hs) : hs[k].id = id /\ \A m \in 1..(k - 1) : hs[m].id # id

(* C8 -- for an id in the collection, update(id, patch) replaces that record,
   at its position, by a record with the patch's value for each field present
   in the patch and the old value for id, createdAt and every field absent
   from the patch; every other record and the order are unchanged; the record
   returned is the record now stored under the id, which a later getById(id)
   returns. *)
C8_UpdateReplacesInPlace ==
    \A i \in CallsOf({"update"}) :
        LET c == calls[i]
            pre == Before(c)
            post == After(c)
        IN  Present(c) =>
                LET k == FirstWithId(pre, c.id)
                IN  /\ c.out.kind = "value"
                    /\ Len(post) = Len(pre)
                    /\ \A m \in 1..Len(pre) : m # k => post[m] = pre[m]
                    /\ post[k].id = pre[k].id
                    /\ post[k].createdAt = pre[k].createdAt
                    /\ post[k].name =
                           (IF c.dto.name = ABSENT THEN pre[k].name ELSE c.dto.name)
                    /\ post[k].description =
                           (IF c.dto.description = ABSENT THEN pre[k].description
                            ELSE c.dto.description)
                    /\ c.out.val = HeroVal(post[k])
                    /\ (i < Len(calls) /\ calls[i + 1].op = "getById"
                            /\ calls[i + 1].id = c.id) =>
                           calls[i + 1].out = Ok(HeroVal(post[k]))

\* a record between two others was given a new name, its description kept, and
\* a getById of its id followed
C8_Witness ==
    /\ Len(calls) >= 2
    /\ calls[1].op = "update" /\ calls[1].id = <<"2">>
    /\ calls[1].dto = [name |-> ClarkKent, description |-> ABSENT]
    /\ After(calls[1])[2].name = ClarkKent
    /\ After(calls[1])[2].description = SeedHeroes[2].description
    /\ calls[2].op = "getById" /\ calls[2].id = <<"2">>

(* C9 -- in any reachable state, delete(id) with an id in the collection makes
   the collection exactly one record shorter, removes exactly the targeted
   record and leaves every other record present, in the same relative order. *)
C9_DeleteRemovesOne ==
    \A i \in CallsOf({"delete"}) :
        LET c == calls[i]
            pre == Before(c)
            post == After(c)
        IN  Present(c) =>
                /\ Len(post) = Len(pre) - 1
                /\ \E k \in 1..Len(pre) :
                       /\ pre[k].id = c.id
                       /\ post = SubSeq(pre, 1, k - 1) \o SubSeq(pre, k + 1, Len(pre))

(* C10 -- in any reachable state, getById(h.id) returns h itself for every
   record h of the collection, and for an id that no record has getById
   returns undefined as a success value, not a failure. *)
C10_GetByIdReturnsRecord ==
    \A i \in CallsOf({"getById"}) :
        LET c == calls[i]
            pre == Before(c)
        IN  /\ \A k \in 1..Len(pre) : pre[k].id = c.id => c.out = Ok(HeroVal(pre[k]))
            /\ ~Present(c) => c.out = Ok(UndefinedVal)

\* What create stores for a request field: a key the request lacks reads as
\* undefined in the stored record.
Requested(field) == IF field = ABSENT THEN UNDEFINED ELSE field

(* C11 -- create(request) appends exactly one record at the end of the
   collection: the collection grows by one, every record that was there keeps
   its position and its content, the last record carries the request's name
   and description with an id and a createdAt assigned by the store, and the
   record returned is that last record. *)
C11_CreateAppends ==
    \A i \in CallsOf({"create"}) :
        LET c == calls[i]
            last == After(c)[Len(After(c))]
        IN  /\ Len(After(c)) = Len(Before(c)) + 1
            /\ \A k \in 1..Len(Before(c)) : After(c)[k] = Before(c)[k]
            /\ last.name = c.dto.name
            /\ last.description = Requested(c.dto.description)
            /\ last.id # <<>> /\ last.id # UNDEFINED
            /\ last.createdAt \in StartTime..now
            /\ c.out = Ok(HeroVal(last))

\* a hero was created with a description after the collection had already
\* been changed by an update, and a second one without a description
C11_Witness ==
    /\ Len(calls) = 3
    /\ calls[1].op = "update" /\ calls[1].out.kind = "value"
    /\ calls[2].op = "create" /\ calls[2].dto.description # ABSENT
    /\ calls[3].op = "create" /\ calls[3].dto.description = ABSENT
    /\ Len(heroes) = 5
    /\ heroes[5].description = UNDEFINED

\* The lower-cased name of record h contains the string t
NameContains(h, t) ==
    /\ h.name # UNDEFINED
    /\ \E a \in 1..(Len(h.name) + 1) :
           /\ a + Len(t) - 1 <= Len(h.name)
           /\ \A k \in 1..Len(t) : LowerChar(h.name[a + k - 1]) = t[k]

(* C12 -- for a term whose trimmed, lower-cased form is not empty,
   searchByName(term) returns, as a success value, exactly the records of the
   collection whose lower-cased name contains that normalized term, in
   collection order, and no other record. *)
C12_SearchReturnsMatches ==
    \A i \in CallsOf({"searchByName"}) :
        LET c == calls[i]
            t == Trim(ToLowerCase(c.term))
        IN  t # <<>> =>
                /\ c.out.kind = "value"
                /\ c.out.val = ArrVal(SelectSeq(Before(c), LAMBDA h : NameContains(h, t)))

\* An empty or whitespace-only term
Blank(term) == \A k \in 1..Len(term) : term[k] \in Whitespace

(* C13 -- in any state, searchByName with an empty or whitespace-only term
   returns the same sequence as getAll in that state, and two terms that are
   equal after trimming and lower-casing ("  MAN  " and "man") return
   identical results in that state. *)
C13_SearchNormalizesTerm ==
    /\ \A i \in CallsOf({"searchByName"}) :
           Blank(calls[i].term) =>
               /\ calls[i].out.kind = "value"
               /\ Deref(calls[i].out.val, heap) = ArrVal(Before(calls[i]))
               /\ \A g \in CallsOf({"getAll"}) :
                      calls[g].pre = calls[i].pre => calls[g].out = calls[i].out
    /\ \A i, k \in CallsOf({"searchByName"}) :
           (/\ calls[i].pre = calls[k].pre
            /\ Trim(ToLowerCase(calls[i].term)) = Trim(ToLowerCase(calls[k].term)))
               => calls[i].out = calls[k].out

\* in one state: a whitespace-only search that returned the whole collection,
\* and "  MAN  " and "man" searched with equal, non-empty results
C13_Witness ==
    \E b, m1, m2 \in 1..Len(calls) :
        /\ calls[b].op = "searchByName" /\ calls[b].term = <<" ", " ">>
        /\ Deref(calls[b].out.val, heap) = ArrVal(heroes)
        /\ calls[m1].op = "searchByName" /\ calls[m1].term = <<"m","a","n">>
        /\ calls[m2].op = "searchByName" /\ calls[m2].term # calls[m1].term
        /\ calls[m1].out = calls[m2].out
        /\ calls[m1].out.kind = "value"
        /\ calls[m1].out.val.arr # <<>>
        /\ {calls[b].pre, calls[m1].pre} = {calls[m2].pre}

(* C14 -- after any sequence of create, update and delete,
   resetToInitialState leaves the collection equal to the fixed seed: the
   three records with ids "1", "2", "3", in that order, with the names,
   descriptions and timestamps the store was constructed with. *)
C14_ResetRestoresSeed ==
    \A i \in CallsOf({"resetToInitialState"}) :
        /\ After(calls[i]) = heap[1]
        /\ After(calls[i]) = SeedHeroes
        /\ [k \in 1..3 |-> After(calls[i])[k].id] = << <<"1">>, <<"2">>, <<"3">> >>
        /\ i = Len(calls) => heroes = SeedHeroes

\* a hero was created, "2" was updated, and then the store was reset
C14_Witness ==
    /\ Len(calls) = 3
    /\ calls[1].op = "create"
    /\ calls[2].op = "update" /\ calls[2].out.kind = "value"
    /\ calls[3].op = "resetToInitialState"
    /\ Len(Before(calls[3])) = 4
    /\ Before(calls[3])[2] # SeedHeroes[2]
    /\ heroes = SeedHeroes

\* The step is an invocation of a query
QueryStep ==
    /\ Len(calls') = Len(calls) + 1
    /\ calls'[Len(calls')].op \in Queries

(* C15 -- getAll, getById and searchByName leave the collection unchanged:
   after the call the collection holds the same records in the same order as
   before it, and no array the signal ever held has changed. *)
C15_QueriesLeaveCollection ==
    [][QueryStep => /\ heroes' = heroes
                    /\ heroesSignal' = heroesSignal
                    /\ heap' = heap]_vars

\* after an update, getById found a record and searchByName("SUPER") returned
\* fewer records than the collection holds; the collection is still the one
\* the update installed
C15_Witness ==
    /\ Len(calls) = 3
    /\ calls[1].op = "update" /\ calls[1].out.kind = "value"
    /\ calls[2].op = "getById" /\ calls[2].out.val.t = "hero"
    /\ calls[3].op = "searchByName" /\ calls[3].out.kind = "value"
    /\ calls[3].out.val.t = "arr"
    /\ Len(calls[3].out.val.arr) < Len(heroes)
    /\ heroesSignal = calls[1].post
    /\ heroes = After(calls[1])

\* Subscriptions to a getAll whose array has been delivered
DeliveredGetAll ==
    {j \in 1..Len(subs) : calls[subs[j].call].op = "getAll" /\ subs[j].notifs # <<>>}

\* The step is an invocation of a mutation that went through
MutationStep ==
    /\ Len(calls') = Len(calls) + 1
    /\ calls'[Len(calls')].op \in {"create", "update", "delete", "resetToInitialState"}
    /\ calls'[Len(calls')].out.kind = "value"

(* C16 -- a snapshot obtained from heroes() or delivered by getAll is never
   changed by a later create, update, delete or resetToInitialState: the array
   delivered by getAll still holds what it held when it was delivered, no
   array the signal ever held changes, and each mutation installs a new
   array. *)
C16_SnapshotsNeverChange ==
    /\ [](\A j \in DeliveredGetAll :
              subs[j].notifs[1].val = ArrVal(heap[calls[subs[j].call].out.val.ref]))
    /\ [][/\ \A r \in 1..Len(heap) : heap'[r] = heap[r]
          /\ MutationStep => /\ heroesSignal' \notin 1..Len(heap)
                              /\ heroesSignal' # heroesSignal]_vars

\* getAll delivered the array the signal held; a mutation made after the
\* delivery installed another array, and the delivered one is as it was
C16_Witness ==
    \E j \in DeliveredGetAll :
        LET ref == calls[subs[j].call].out.val.ref
        IN  /\ subs[j].notifs[1].seen = ref
            /\ heroesSignal # ref
            /\ heroes # heap[ref]
            /\ subs[j].notifs[1].val = ArrVal(heap[ref])
            /\ calls[Len(calls)].op \in {"create", "update", "delete"}

\* The patch supplies no value for the field: the key is absent or undefined
NoValue(field) == field \in {ABSENT, UNDEFINED}

(* C17 -- update never clears a field for which the patch supplies no value:
   when the patch has no defined description (the key is absent or its value
   is undefined) the record's description after the update equals its
   description before, and likewise for name. *)
C17_UpdateKeepsUnsuppliedFields ==
    \A i \in CallsOf({"update"}) :
        LET c == calls[i]
            pre == Before(c)
            post == After(c)
        IN  Present(c) =>
                LET k == FirstWithId(pre, c.id)
                IN  /\ NoValue(c.dto.description) =>
                           /\ post[k].description = pre[k].description
                           /\ c.out.val.hero.description = pre[k].description
                    /\ NoValue(c.dto.name) =>
                           /\ post[k].name = pre[k].name
                           /\ c.out.val.hero.name = pre[k].name

Mutations == {"create", "update", "delete", "resetToInitialState"}

\* By how many records a mutation that went through changes the collection
SizeChange(op) ==
    CASE op = "create" -> 1
      [] op = "delete" -> -1
      [] op = "update" -> 0

\* The notifications of two subscriptions are the same but for what the
\* subscriber read from heroes() when it was notified
SameOutcome(ns, ms) ==
    /\ Len(ns) = Len(ms)
    /\ \A k \in 1..Len(ns) :
           /\ ns[k].type = ms[k].type
           /\ ns[k].val = ms[k].val
           /\ ns[k].msg = ms[k].msg

(* C18 -- the state change of create, update and delete is applied exactly
   once per invocation, at call time, whether the returned observable is
   subscribed to zero, one or several times: the signal has been set once per
   successful invocation and the collection is what the last invocation left,
   every subscription of one invocation is delivered the same outcome, the one
   computed at call time, and subscribing or delivering does not change the
   collection. *)
C18_AppliedOncePerInvocation ==
    /\ [](/\ Len(heap) = 1 + Cardinality({i \in CallsOf(Mutations) :
                                               calls[i].out.kind = "value"})
          /\ heroesSignal = (IF calls = <<>> THEN 1 ELSE calls[Len(calls)].post)
          /\ \A i \in CallsOf({"create", "update", "delete"}) :
                 calls[i].out.kind = "value" =>
                     Len(After(calls[i])) = Len(Before(calls[i])) + SizeChange(calls[i].op)
          /\ \A j, k \in 1..Len(subs) :
                 (/\ subs[j].call = subs[k].call
                  /\ calls[subs[j].call].op \in Mutations
                  /\ subs[j].notifs # <<>> /\ subs[k].notifs # <<>>) =>
                     /\ SameOutcome(subs[j].notifs, subs[k].notifs)
                     /\ subs[j].notifs[1].val = calls[subs[j].call].out.val)
    /\ [][subs' # subs => /\ heap' = heap
                           /\ heroesSignal' = heroesSignal
                           /\ calls' = calls]_vars

\* a create was subscribed to twice and both subscriptions were delivered the
\* created hero, which is in the collection once; a later delete that nobody
\* subscribed to has removed "2"
C18_Witness ==
    /\ Len(calls) = 2 /\ Len(subs) = 2
    /\ calls[1].op = "create" /\ calls[2].op = "delete"
    /\ calls[2].out.kind = "value"
    /\ subs[1].call = 1 /\ subs[2].call = 1
    /\ subs[1].notifs # <<>> /\ subs[2].notifs # <<>>
    /\ subs[1].notifs[1].val = subs[2].notifs[1].val
    /\ subs[1].notifs[1].val = calls[1].out.val
    /\ Len(heroes) = 3
    /\ Cardinality({k \in 1..Len(heroes) : heroes[k] = calls[1].out.val.hero}) = 1
    /\ <<"2">> \notin Ids(heroes)

\* Subscriptions to a call that returned a value / a failure
ValueSubs == {j \in 1..Len(subs) : calls[subs[j].call].out.kind = "value"}
ErrorSubs == {j \in 1..Len(subs) : calls[subs[j].call].out.kind = "error"}

(* C19 -- a success value is delivered only after the fixed delay has elapsed
   from the subscription, whereas the not-found failure of update or delete is
   delivered at the subscription, without delay; so the failure of an
   operation issued later can be delivered before the success of one issued
   earlier. *)
C19_ValuesDelayedFailuresImmediate ==
    /\ \A j \in ValueSubs :
           subs[j].notifs # <<>> =>
               /\ now >= subs[j].at + ASYNC_DELAY
               /\ subs[j].notifs[1].type = "next"
    /\ \A j \in ErrorSubs :
           /\ calls[subs[j].call].op \in {"update", "delete"}
           /\ Len(subs[j].notifs) = 1
           /\ subs[j].notifs[1].type = "error"
           /\ subs[j].notifs[1].msg = calls[subs[j].call].out.msg

\* call 1 succeeded and call 2, issued after it, failed with not found; call 1
\* was subscribed to first and has not been delivered its value, while the
\* subscription to call 2 has been delivered the failure, at the same instant
C19_Witness ==
    /\ Len(calls) = 2 /\ Len(subs) = 2
    /\ calls[1].out.kind = "value" /\ calls[2].out.kind = "error"
    /\ subs[1].call = 1 /\ subs[2].call = 2
    /\ subs[1].notifs = <<>>
    /\ subs[2].notifs # <<>> /\ subs[2].notifs[1].type = "error"
    /\ subs[2].at >= subs[1].at
    /\ now < subs[1].at + ASYNC_DELAY

====
